---- MODULE Spec2Model ----
(***************************************************************************)
(* idgit: uncommitted-change listing, stage/unstage and linear undo/redo   *)
(* over a git backend.  The model follows src/src/repo.rs, src/src/file.rs *)
(* and src/src/diff.rs; the backend (git2) and the history container       *)
(* (undo::History) are collaborators modelled at their boundary.           *)
(***************************************************************************)
EXTENDS Integers, Sequences, FiniteSets, TLC

(* ---------------------------------------------------------------------- *)
(* Bounds                                                                  *)
(* ---------------------------------------------------------------------- *)

\* Longest recorded command sequence explored.
MaxHist == 2

\* Largest number of file sides of a backend record handed to the classifier.
MaxSides == 2

(* ---------------------------------------------------------------------- *)
(* Values                                                                  *)
(* ---------------------------------------------------------------------- *)

\* Number of content lines the backend reports for a changed file with content.
LinesPerFile == 2

\* Relative paths of the working tree, in the backend's traversal order
\* (byte order of the path).
PathOrder == <<"1.txt", "?.txt", "a.txt", "b.ignored">>

Paths == {PathOrder[i] : i \in 1..Len(PathOrder)}

\* The files the stage/unstage/undo/redo runs work on.
StagePaths == {"a.txt", "b.ignored"}

\* The files the diff-detail runs work on; "?.txt" is a legal file name that is
\* also a pathspec pattern matching the two others.
DiffPaths == {"1.txt", "?.txt", "a.txt"}

\* Paths matched by the backend's ignore rules (a .gitignore of "*.ignored").
IgnoreRules == {"b.ignored"}

\* Option::None for File.rel_path.
None == "None"

\* File { id, rel_path, size }: only rel_path decides the operations modelled.
File == [rel_path : StagePaths \cup {None}]

\* enum Change { StageFile(&File), UnstageFile(&File) }
Change == [kind : {"StageFile", "UnstageFile"}, file : File]

VARIABLES
    index,      \* paths in the backend's staging index
    workdir,    \* paths that exist in the working tree
    tree,       \* paths of the baseline snapshot (empty on an unborn HEAD)
    entries,    \* History: the recorded commands
    current,    \* History: the cursor, 0..Len(entries)
    log,        \* the most recent facade calls, newest first
    listed,     \* the deltas the caller holds from its last listing
    dd,         \* the diff-detail call in progress: callbacks' captured state
    head,       \* what resolving HEAD gives: "Born", "UnbornBranch" or "Corrupt"
    listres,    \* the caller's last listing: its result and the state it ran on
    cl          \* a backend record handed to the classifier and what came back

vars == <<index, workdir, tree, entries, current, log, listed, dd, head, listres, cl>>

(* ---------------------------------------------------------------------- *)
(* src/src/file.rs                                                         *)
(* ---------------------------------------------------------------------- *)

\* File::rel_path_required: Ok(path) or Err(MissingPath).
rel_path_required(file) ==
    IF file.rel_path = None
    THEN [ok |-> FALSE, err |-> "MissingPath", path |-> None]
    ELSE [ok |-> TRUE, err |-> "Ok", path |-> file.rel_path]

(* ---------------------------------------------------------------------- *)
(* Backend boundary (git2)                                                 *)
(* ---------------------------------------------------------------------- *)

\* Repository::status_should_ignore: the ignore rules decide on the path alone.
status_should_ignore(path) == path \in IgnoreRules

\* Index::add_path: the file must exist in the working tree; a missing file is
\* the backend failure the model exercises.
add_path(idx, wd, path) ==
    IF path \notin wd
    THEN [res |-> "Git2", index |-> idx]
    ELSE [res |-> "Ok", index |-> idx \cup {path}]

\* Index::remove_path: removing a path that is not in the index succeeds.
remove_path(idx, path) ==
    [res |-> "Ok", index |-> idx \ {path}]

\* Status of one path in diff_tree_to_workdir_with_index under
\* uncommitted_opts (untracked and ignored included, unmodified excluded).
\* "Unmodified" stands for a path the traversal does not report.
DeltaStatus(idx, wd, tr, path) ==
    IF path \in tr
    THEN IF path \in idx /\ path \in wd THEN "Unmodified" ELSE "Deleted"
    ELSE IF path \in idx
         THEN IF path \in wd THEN "Added" ELSE "Unmodified"
         ELSE IF path \notin wd THEN "Unmodified"
              ELSE IF status_should_ignore(path) THEN "Ignored" ELSE "Untracked"

(* ---------------------------------------------------------------------- *)
(* src/src/repo.rs: Internal                                               *)
(* ---------------------------------------------------------------------- *)

\* Internal::head_assuming_born: the tree of the commit HEAD points at, or the
\* backend's error.
head_assuming_born(hd, tr) ==
    IF hd = "Born" THEN [res |-> "Ok", tree |-> tr] ELSE [res |-> hd]

\* Variant of Internal::head without the UnbornBranch arm.
Internal_head_NoUnbornArm(hd, tr) ==
    LET h == head_assuming_born(hd, tr)
    IN IF h.res = "Ok" THEN [res |-> "Ok", some |-> TRUE, tree |-> h.tree]
       ELSE [res |-> "Git2"]

\* Internal::head: Some(tree), None on an unborn branch (the diff then compares
\* with the empty tree), any other error returned.
Internal_head(hd, tr) ==
    LET h == head_assuming_born(hd, tr)
    IN IF h.res = "Ok" THEN [res |-> "Ok", some |-> TRUE, tree |-> h.tree]
       ELSE IF h.res = "UnbornBranch" THEN [res |-> "Ok", some |-> FALSE, tree |-> {}]
       ELSE [res |-> "Git2"]

\* The content line records of one changed file: untracked and ignored files
\* are reported without content.
DeltaLines(status, path) ==
    IF status \in {"Untracked", "Ignored"} THEN <<>>
    ELSE [i \in 1..LinesPerFile |-> [path |-> path, no |-> i]]

\* git2::Delta: the status tags of the backend, by the number of file sides a
\* record of the tag carries.
OneSided == {"Added", "Deleted", "Ignored", "Untracked", "Unreadable"}

TwoSided == {"Modified", "Renamed", "Copied", "Typechange", "Conflicted"}

Delta == OneSided \cup TwoSided \cup {"Unmodified"}

\* git2::DiffDelta as the backend builds it for a changed path.
DiffDelta(d) ==
    [status |-> d.status, nfiles |-> IF d.status \in TwoSided THEN 2 ELSE 1,
     old_path |-> d.path, new_path |-> d.path,
     lines |-> DeltaLines(d.status, d.path)]

\* diff_tree_to_workdir_with_index under uncommitted_opts: the records of the
\* changed paths in traversal order, unmodified paths left out.
diff_tree_to_workdir_with_index(idx, wd, tr) ==
    LET all == [i \in 1..Len(PathOrder) |->
                  [status |-> DeltaStatus(idx, wd, tr, PathOrder[i]),
                   path |-> PathOrder[i]]]
        keep(d) == d.status # "Unmodified"
        sel == SelectSeq(all, keep)
    IN [i \in 1..Len(sel) |-> DiffDelta(sel[i])]

\* Internal::delta_path: the new side's path, else the old side's.
delta_path(delta) ==
    IF delta.new_path # None THEN delta.new_path ELSE delta.old_path

\* Option<diff::Meta>::None in the callback's captured state.
NoMeta == [status |-> None, path |-> None]

\* The process aborted in an assertion instead of returning a Meta.
Panic == [status |-> "panic", path |-> None]

\* Meta::get_new_file_only, get_old_file_only, get_both_files: the path of the
\* file side Internal::diff_details reads from the Meta (the only side, or the
\* new one of two), after the assertion on the number of sides.
get_new_file_only(from) ==
    IF from.nfiles # 1 THEN Panic ELSE [status |-> from.status, path |-> from.new_path]

get_old_file_only(from) ==
    IF from.nfiles # 1 THEN Panic ELSE [status |-> from.status, path |-> from.old_path]

get_both_files(from) ==
    IF from.nfiles # 2 THEN Panic ELSE [status |-> from.status, path |-> from.new_path]

\* Variant of Meta::from_git2 without the assertions and with Unmodified taken
\* for a one-sided status.
Meta_from_git2_Unchecked(from) ==
    [status |-> from.status,
     path |-> IF from.status = "Deleted" THEN from.old_path ELSE from.new_path]

\* Meta::from_git2: the classification with the file side(s) it carries.
Meta_from_git2(from) ==
    IF from.status \in {"Added", "Ignored", "Untracked", "Unreadable"}
    THEN get_new_file_only(from)
    ELSE IF from.status = "Deleted" THEN get_old_file_only(from)
    ELSE IF from.status \in TwoSided THEN get_both_files(from)
    ELSE Panic

\* Internal::uncommitted_files after head(): the Meta of every reported delta,
\* in traversal order.
uncommitted_files(idx, wd, tr) ==
    LET deltas == diff_tree_to_workdir_with_index(idx, wd, tr)
    IN [i \in 1..Len(deltas) |-> Meta_from_git2(deltas[i])]

\* Variant of stage_file that updates the index from the whole working tree
\* once the path is accepted.
stage_file_AddsWorkdir(idx, wd, file) ==
    LET p == rel_path_required(file) IN
    IF ~p.ok
    THEN [res |-> p.err, index |-> idx, calls |-> <<>>]
    ELSE IF status_should_ignore(p.path)
         THEN [res |-> "Ok", index |-> idx, calls |-> <<"status_should_ignore">>]
         ELSE LET r == add_path(idx, wd, p.path) IN
              [res |-> r.res, index |-> IF r.res = "Ok" THEN idx \cup wd ELSE idx,
               calls |-> <<"status_should_ignore", "add_path">>]

\* Variant of stage_file that never asks the ignore rules.
stage_file_NoIgnoreCheck(idx, wd, file) ==
    LET p == rel_path_required(file) IN
    IF ~p.ok
    THEN [res |-> p.err, index |-> idx, calls |-> <<>>]
    ELSE LET r == add_path(idx, wd, p.path) IN
         [res |-> r.res, index |-> r.index, calls |-> <<"add_path">>]

\* Internal::stage_file
stage_file(idx, wd, file) ==
    LET p == rel_path_required(file) IN
    IF ~p.ok
    THEN [res |-> p.err, index |-> idx, calls |-> <<>>]
    ELSE IF status_should_ignore(p.path)
         THEN [res |-> "Ok", index |-> idx, calls |-> <<"status_should_ignore">>]
         ELSE LET r == add_path(idx, wd, p.path) IN
              [res |-> r.res, index |-> r.index,
               calls |-> <<"status_should_ignore", "add_path">>]

\* Variant of unstage_file that takes a FileRef without a path for nothing to
\* do.
unstage_file_SkipsPathless(idx, file) ==
    LET p == rel_path_required(file) IN
    IF ~p.ok
    THEN [res |-> "Ok", index |-> idx, calls |-> <<>>]
    ELSE LET r == remove_path(idx, p.path) IN
         [res |-> r.res, index |-> r.index, calls |-> <<"remove_path">>]

\* Variant of unstage_file with Stage's guard: ignored paths are left alone.
unstage_file_IgnoreGuarded(idx, file) ==
    LET p == rel_path_required(file) IN
    IF ~p.ok
    THEN [res |-> p.err, index |-> idx, calls |-> <<>>]
    ELSE IF status_should_ignore(p.path)
         THEN [res |-> "Ok", index |-> idx, calls |-> <<"status_should_ignore">>]
         ELSE LET r == remove_path(idx, p.path) IN
              [res |-> r.res, index |-> r.index,
               calls |-> <<"status_should_ignore", "remove_path">>]

\* Internal::unstage_file
unstage_file(idx, file) ==
    LET p == rel_path_required(file) IN
    IF ~p.ok
    THEN [res |-> p.err, index |-> idx, calls |-> <<>>]
    ELSE LET r == remove_path(idx, p.path) IN
         [res |-> r.res, index |-> r.index, calls |-> <<"remove_path">>]

(* ---------------------------------------------------------------------- *)
(* src/src/repo.rs: impl undo::Action for Change                           *)
(* ---------------------------------------------------------------------- *)

\* Variant of Change::apply with the two arms exchanged.
Change_apply_Swapped(change, idx, wd) ==
    IF change.kind = "StageFile"
    THEN unstage_file(idx, change.file)
    ELSE stage_file(idx, wd, change.file)

\* Change::apply
Change_apply(change, idx, wd) ==
    IF change.kind = "StageFile"
    THEN stage_file(idx, wd, change.file)
    ELSE unstage_file(idx, change.file)

\* Variant of Change::undo with the two arms exchanged (undo repeats the action).
Change_undo_Swapped(change, idx, wd) ==
    IF change.kind = "StageFile"
    THEN stage_file(idx, wd, change.file)
    ELSE unstage_file(idx, change.file)

\* Change::undo
Change_undo(change, idx, wd) ==
    IF change.kind = "StageFile"
    THEN unstage_file(idx, change.file)
    ELSE stage_file(idx, wd, change.file)

(* ---------------------------------------------------------------------- *)
(* undo::History (linear record with a cursor)                             *)
(* ---------------------------------------------------------------------- *)

History_can_undo(cur) == cur > 0

History_can_redo(ents, cur) == cur < Len(ents)

\* History::apply: run the forward action; on success drop the redo tail,
\* append at the cursor and advance.  A failed action records nothing.
History_apply(ents, cur, idx, wd, change) ==
    LET r == Change_apply(change, idx, wd) IN
    IF r.res = "Ok"
    THEN [res |-> r.res, index |-> r.index, calls |-> r.calls,
          entries |-> Append(SubSeq(ents, 1, cur), change), current |-> cur + 1]
    ELSE [res |-> r.res, index |-> r.index, calls |-> r.calls,
          entries |-> ents, current |-> cur]

\* History::undo: None at the start; otherwise step back and run the inverse.
History_undo(ents, cur, idx, wd) ==
    IF ~History_can_undo(cur)
    THEN [some |-> FALSE, res |-> "None", index |-> idx, calls |-> <<>>,
          entries |-> ents, current |-> cur]
    ELSE LET r == Change_undo(ents[cur], idx, wd) IN
         [some |-> TRUE, res |-> r.res, index |-> r.index, calls |-> r.calls,
          entries |-> ents, current |-> cur - 1]

\* History::redo: None at the end; otherwise run the forward action and advance.
History_redo(ents, cur, idx, wd) ==
    IF ~History_can_redo(ents, cur)
    THEN [some |-> FALSE, res |-> "None", index |-> idx, calls |-> <<>>,
          entries |-> ents, current |-> cur]
    ELSE LET r == Change_apply(ents[cur + 1], idx, wd) IN
         [some |-> TRUE, res |-> r.res, index |-> r.index, calls |-> r.calls,
          entries |-> ents, current |-> cur + 1]

(* ---------------------------------------------------------------------- *)
(* src/src/diff.rs and the diff traversal of the backend                   *)
(* ---------------------------------------------------------------------- *)

\* Pathspec patterns among the paths and the paths they match besides
\* themselves ('?' matches any one character).
GlobMatches == {<<"?.txt", "1.txt">>, <<"?.txt", "a.txt">>}

\* DiffOptions::pathspec: the traversal reports a path when the pathspec equals
\* it or matches it as a pattern.
PathspecMatches(spec, path) == spec = path \/ <<spec, path>> \in GlobMatches

\* diff_tree_to_workdir_with_index under uncommitted_opts plus a pathspec.
diff_with_pathspec(idx, wd, tr, spec) ==
    LET all == diff_tree_to_workdir_with_index(idx, wd, tr)
        hit(d) == PathspecMatches(spec, delta_path(d))
    IN SelectSeq(all, hit)

\* No diff-detail call in progress.
Idle ==
    [pc |-> "idle", target |-> None, deltas |-> <<>>, pos |-> 0, lno |-> 0,
     meta |-> NoMeta, lines |-> <<>>, visited |-> <<>>, err |-> "Ok",
     result |-> [err |-> None], at_call |-> <<>>, head |-> None,
     signals |-> <<>>]

(* ---------------------------------------------------------------------- *)
(* Observation log                                                         *)
(* ---------------------------------------------------------------------- *)

\* The status list-uncommitted-changes reports for a path in a listing
\* ("Unmodified" when the listing does not hold the path).
ClassOf(listing, path) ==
    IF \E i \in 1..Len(listing) : listing[i].path = path
    THEN (CHOOSE d \in {listing[i] : i \in 1..Len(listing)} : d.path = path).status
    ELSE "Unmodified"

\* How far the newest calls follow the chain "apply, undo, redo", each Ok and
\* each immediately after the one before: 1 after the apply, 2 after the undo,
\* 3 after the redo, 0 otherwise.
Streak(op, res) ==
    IF res # "Ok" THEN 0
    ELSE IF op \in {"stage_file", "unstage_file"} THEN 1
    ELSE IF log = <<>> THEN 0
    ELSE IF op = "undo" /\ log[1].streak = 1 THEN 2
    ELSE IF op = "redo" /\ log[1].streak = 2 THEN 3
    ELSE 0

\* One entry of the log: the facade call, the command it concerned, the backend
\* action it ran, its result, the backend calls made, list-uncommitted-changes
\* and the history before and after it.
Observe(op, change, ran, r) ==
    LET k == Streak(op, r.res) IN
    [op |-> op, kind |-> change.kind, file |-> change.file, ran |-> ran,
     res |-> r.res, calls |-> r.calls,
     before |-> uncommitted_files(index, workdir, tree),
     after |-> uncommitted_files(r.index, workdir, tree),
     index0 |-> index, entries0 |-> entries, current0 |-> current,
     streak |-> k,
     origin |-> IF k = 0 THEN <<>>
                ELSE IF k = 1 THEN uncommitted_files(index, workdir, tree)
                ELSE log[1].origin]

\* A change of the working tree made outside the facade, as a log entry.
ObserveDir(op, path, wd) ==
    [op |-> op, kind |-> None, file |-> [rel_path |-> path], ran |-> "none",
     res |-> "Ok", calls |-> <<>>,
     before |-> uncommitted_files(index, workdir, tree),
     after |-> uncommitted_files(index, wd, tree),
     index0 |-> index, entries0 |-> entries, current0 |-> current,
     streak |-> 0, origin |-> <<>>]

\* The older entry of the log keeps the call, its result and the listings; the
\* history and the index before the call are kept for the newest call only.
Older(rec) ==
    [rec EXCEPT !.index0 = {}, !.entries0 = <<>>, !.current0 = 0, !.calls = <<>>]

\* The log keeps the newest call and the one before it.
Record(rec) == IF log = <<>> THEN <<rec>> ELSE <<rec, Older(log[1])>>

NoChange == [kind |-> None, file |-> [rel_path |-> None]]

(* ---------------------------------------------------------------------- *)
(* src/src/repo.rs: Repo                                                   *)
(* ---------------------------------------------------------------------- *)

\* Repo::can_undo / Repo::can_redo
can_undo == History_can_undo(current)

\* Variant of Repo::can_redo that asks whether any command is recorded.
can_redo_AnyRecorded == entries # <<>>

can_redo == History_can_redo(entries, current)

\* Variant of Repo::apply that runs the command on the backend itself and
\* pushes it at the end of the sequence, keeping the redo tail.
Repo_apply_KeepsTail(op, change) ==
    /\ current < MaxHist
    /\ LET c == Change_apply(change, index, workdir)
           r == IF c.res = "Ok"
                THEN [res |-> c.res, index |-> c.index, calls |-> c.calls,
                      entries |-> Append(entries, change), current |-> current + 1]
                ELSE [res |-> c.res, index |-> c.index, calls |-> c.calls,
                      entries |-> entries, current |-> current]
       IN /\ index' = r.index
          /\ entries' = r.entries
          /\ current' = r.current
          /\ log' = Record(Observe(op, change,
                                   IF change.kind = "StageFile" THEN "stage" ELSE "unstage", r))
    /\ UNCHANGED <<workdir, tree, listed, dd, head, listres, cl>>

\* Variant of Repo::apply that records the command whatever the action returned.
Repo_apply_RecordsFailure(op, change) ==
    /\ current < MaxHist
    /\ LET c == Change_apply(change, index, workdir)
           r == [res |-> c.res, index |-> c.index, calls |-> c.calls,
                 entries |-> Append(SubSeq(entries, 1, current), change),
                 current |-> current + 1]
       IN /\ index' = r.index
          /\ entries' = r.entries
          /\ current' = r.current
          /\ log' = Record(Observe(op, change,
                                   IF change.kind = "StageFile" THEN "stage" ELSE "unstage", r))
    /\ UNCHANGED <<workdir, tree, listed, dd, head, listres, cl>>

\* Repo::apply
Repo_apply(op, change) ==
    /\ current < MaxHist
    /\ LET r == History_apply(entries, current, index, workdir, change) IN
       /\ index' = r.index
       /\ entries' = r.entries
       /\ current' = r.current
       /\ log' = Record(Observe(op, change,
                                IF change.kind = "StageFile" THEN "stage" ELSE "unstage", r))
    /\ UNCHANGED <<workdir, tree, listed, dd, head, listres, cl>>

\* Variant of Repo::stage_file that keeps a Stage of an ignored path out of the
\* history.
Repo_stage_file_SkipsIgnored(file) ==
    LET change == [kind |-> "StageFile", file |-> file]
        p == rel_path_required(file)
    IN IF p.ok /\ status_should_ignore(p.path)
       THEN /\ current < MaxHist
            /\ log' = Record(Observe("stage_file", change, "stage",
                                     stage_file(index, workdir, file)))
            /\ UNCHANGED <<index, entries, current, workdir, tree, listed, dd,
                           head, listres, cl>>
       ELSE Repo_apply("stage_file", change)

\* Repo::stage_file
Repo_stage_file(file) ==
    Repo_apply("stage_file", [kind |-> "StageFile", file |-> file])

\* Repo::unstage_file
Repo_unstage_file(file) ==
    Repo_apply("unstage_file", [kind |-> "UnstageFile", file |-> file])

\* Variant of Repo::undo that puts the cursor back when the inverse fails.
Repo_undo_RollsBack ==
    LET h == History_undo(entries, current, index, workdir)
        r == IF h.some THEN h ELSE [h EXCEPT !.res = "UndoEmpty"]
        c == IF can_undo THEN entries[current] ELSE NoChange
        ran == IF ~h.some THEN "none"
               ELSE IF c.kind = "StageFile" THEN "unstage" ELSE "stage"
    IN /\ index' = r.index
       /\ entries' = r.entries
       /\ current' = IF r.res = "Ok" THEN r.current ELSE current
       /\ log' = Record(Observe("undo", c, ran, r))
       /\ UNCHANGED <<workdir, tree, listed, dd, head, listres, cl>>

\* Variant of Repo::undo that reports success when there is nothing to undo.
Repo_undo_IgnoresEmpty ==
    LET h == History_undo(entries, current, index, workdir)
        r == IF h.some THEN h ELSE [h EXCEPT !.res = "Ok"]
        c == IF can_undo THEN entries[current] ELSE NoChange
        ran == IF ~h.some THEN "none"
               ELSE IF c.kind = "StageFile" THEN "unstage" ELSE "stage"
    IN /\ index' = r.index
       /\ entries' = r.entries
       /\ current' = r.current
       /\ log' = Record(Observe("undo", c, ran, r))
       /\ UNCHANGED <<workdir, tree, listed, dd, head, listres, cl>>

\* Repo::undo: ok_or(UndoEmpty), then the inverse action's own result.
Repo_undo ==
    LET h == History_undo(entries, current, index, workdir)
        r == IF h.some THEN h ELSE [h EXCEPT !.res = "UndoEmpty"]
        c == IF can_undo THEN entries[current] ELSE NoChange
        ran == IF ~h.some THEN "none"
               ELSE IF c.kind = "StageFile" THEN "unstage" ELSE "stage"
    IN /\ index' = r.index
       /\ entries' = r.entries
       /\ current' = r.current
       /\ log' = Record(Observe("undo", c, ran, r))
       /\ UNCHANGED <<workdir, tree, listed, dd, head, listres, cl>>

\* Variant of Repo::redo that applies the next command anew, as apply does.
Repo_redo_Reapplies ==
    LET c == IF can_redo THEN entries[current + 1] ELSE NoChange
        a == History_apply(entries, current, index, workdir, c)
        h == History_redo(entries, current, index, workdir)
        r == IF h.some THEN [h EXCEPT !.entries = a.entries, !.current = a.current]
             ELSE [h EXCEPT !.res = "RedoEmpty"]
        ran == IF ~h.some THEN "none"
               ELSE IF c.kind = "StageFile" THEN "stage" ELSE "unstage"
    IN /\ index' = r.index
       /\ entries' = r.entries
       /\ current' = r.current
       /\ log' = Record(Observe("redo", c, ran, r))
       /\ UNCHANGED <<workdir, tree, listed, dd, head, listres, cl>>

\* Variant of Repo::redo that reports success when there is nothing to redo.
Repo_redo_IgnoresEmpty ==
    LET h == History_redo(entries, current, index, workdir)
        r == IF h.some THEN h ELSE [h EXCEPT !.res = "Ok"]
        c == IF can_redo THEN entries[current + 1] ELSE NoChange
        ran == IF ~h.some THEN "none"
               ELSE IF c.kind = "StageFile" THEN "stage" ELSE "unstage"
    IN /\ index' = r.index
       /\ entries' = r.entries
       /\ current' = r.current
       /\ log' = Record(Observe("redo", c, ran, r))
       /\ UNCHANGED <<workdir, tree, listed, dd, head, listres, cl>>

\* Repo::redo: ok_or(RedoEmpty), then the forward action's own result.
Repo_redo ==
    LET h == History_redo(entries, current, index, workdir)
        r == IF h.some THEN h ELSE [h EXCEPT !.res = "RedoEmpty"]
        c == IF can_redo THEN entries[current + 1] ELSE NoChange
        ran == IF ~h.some THEN "none"
               ELSE IF c.kind = "StageFile" THEN "stage" ELSE "unstage"
    IN /\ index' = r.index
       /\ entries' = r.entries
       /\ current' = r.current
       /\ log' = Record(Observe("redo", c, ran, r))
       /\ UNCHANGED <<workdir, tree, listed, dd, head, listres, cl>>

(* ---------------------------------------------------------------------- *)
(* The working tree changing under the repository (tests: SampleRepoDir)   *)
(* ---------------------------------------------------------------------- *)

\* SampleRepoDir::set_file: the path now exists in the working tree.
set_file(path) ==
    /\ path \notin workdir
    /\ workdir' = workdir \cup {path}
    /\ UNCHANGED <<index, tree, entries, current, listed, head, listres, cl>>

\* SampleRepoDir::remove_file: the path no longer exists in the working tree.
remove_file(path) ==
    /\ path \in workdir
    /\ workdir' = workdir \ {path}
    /\ UNCHANGED <<index, tree, entries, current, listed, head, listres, cl>>

(* ---------------------------------------------------------------------- *)
(* src/src/repo.rs: Internal::diff_details                                 *)
(* ---------------------------------------------------------------------- *)

\* No record is with the classifier.
NoRecord ==
    [from |-> [status |-> None, nfiles |-> 0, old_path |-> None, new_path |-> None,
               lines |-> <<>>],
     out |-> NoMeta]

\* The caller has not listed yet.
NotListed == [res |-> None, head |-> None, index |-> {}, workdir |-> {}]

\* No diff-detail call is between its start and its return.
Quiet == dd.pc \in {"idle", "done"}

\* Repo::uncommitted_files called by a caller that keeps the deltas it gets;
\* on a failure it is left with the deltas it had.
list_uncommitted ==
    /\ Quiet
    /\ LET h == Internal_head(head, tree)
       IN /\ listres' = [res |-> h.res, head |-> head, index |-> index,
                         workdir |-> workdir]
          /\ listed' = IF h.res # "Ok" THEN listed
                       ELSE uncommitted_files(index, workdir, h.tree)
    /\ UNCHANGED <<index, workdir, tree, entries, current, log, dd, head, cl>>

\* Variant of file_cb that takes the first file the traversal visits for the
\* target, without comparing paths.
file_cb_AnyPath(meta, path, delta) ==
    IF meta = NoMeta
    THEN [meta |-> Meta_from_git2(delta), ret |-> TRUE]
    ELSE [meta |-> meta, ret |-> FALSE]

\* Variant of file_cb that never asks the traversal to stop.
file_cb_NeverStops(meta, path, delta) ==
    IF delta_path(delta) # None /\ delta_path(delta) = path
    THEN [meta |-> Meta_from_git2(delta), ret |-> TRUE]
    ELSE [meta |-> meta, ret |-> TRUE]

\* Variant of file_cb that asks the traversal to stop on the visit of the
\* target.
file_cb_StopsAtMatch(meta, path, delta) ==
    IF delta_path(delta) # None /\ delta_path(delta) = path
    THEN [meta |-> Meta_from_git2(delta), ret |-> FALSE]
    ELSE [meta |-> meta, ret |-> meta = NoMeta]

\* file_cb of _diff_details: the captured meta after the visit and the value
\* returned to the traversal (TRUE: go on, FALSE: stop).
file_cb(meta, path, delta) ==
    IF delta_path(delta) # None /\ delta_path(delta) = path
    THEN [meta |-> Meta_from_git2(delta), ret |-> TRUE]
    ELSE [meta |-> meta, ret |-> meta = NoMeta]

\* line_cb without the comparison of the line's path with the target.
line_cb_AnyPath(lines, path, delta, line) ==
    [lines |-> Append(lines, line), ret |-> TRUE]

\* line_cb of _diff_details: the collected lines after the visit and the value
\* returned to the traversal.
line_cb(lines, path, delta, line) ==
    IF delta_path(delta) # None /\ delta_path(delta) = path
    THEN [lines |-> Append(lines, line), ret |-> TRUE]
    ELSE [lines |-> lines, ret |-> TRUE]

\* diff_result without the arm that lets the callback's own stop through.
diff_result_SurfacesStop(err, meta, lines, path) ==
    IF err # "Ok" THEN [err |-> IF err = "User" THEN "Git2" ELSE err]
    ELSE IF meta = NoMeta THEN [err |-> "PathNotFound", path |-> path]
    ELSE [err |-> "Ok", meta |-> meta, lines |-> lines]

\* The end of _diff_details: the traversal's error unless it is the callback's
\* own stop, then PathNotFound unless a meta was captured.
diff_result(err, meta, lines, path) ==
    IF err \notin {"Ok", "User"} THEN [err |-> err]
    ELSE IF meta = NoMeta THEN [err |-> "PathNotFound", path |-> path]
    ELSE [err |-> "Ok", meta |-> meta, lines |-> lines]

\* Internal::diff_details on a delta of the caller's listing, up to the start
\* of the traversal over the current backend state.
diff_details(i) ==
    /\ Quiet
    /\ i \in 1..Len(listed)
    /\ LET p == rel_path_required([rel_path |-> listed[i].path])
           h == Internal_head(head, tree)
           deltas == diff_with_pathspec(index, workdir, h.tree, p.path)
       IN dd' = IF ~p.ok
                THEN [Idle EXCEPT !.pc = "done", !.result = [err |-> p.err]]
                ELSE IF h.res # "Ok"
                THEN [Idle EXCEPT !.pc = "done", !.target = p.path, !.head = head,
                                  !.err = h.res, !.result = [err |-> h.res]]
                ELSE [Idle EXCEPT !.pc = IF deltas = <<>> THEN "end" ELSE "file",
                                  !.target = p.path, !.deltas = deltas,
                                  !.pos = 1, !.lno = 1, !.head = head,
                                  !.at_call = uncommitted_files(index, workdir, tree)]
    /\ UNCHANGED <<index, workdir, tree, entries, current, log, listed, head, listres, cl>>

\* The traversal visits the next changed file: file_cb runs.
FileVisit ==
    /\ dd.pc = "file"
    /\ LET delta == dd.deltas[dd.pos]
           r == file_cb(dd.meta, dd.target, delta)
       IN dd' = [dd EXCEPT !.meta = r.meta,
                           !.visited = Append(@, delta_path(delta)),
                           !.signals = Append(@, r.ret),
                           !.lno = 1,
                           !.pc = IF r.meta = Panic THEN "panic"
                                  ELSE IF r.ret THEN "lines" ELSE "end",
                           !.err = IF r.ret THEN "Ok" ELSE "User"]
    /\ UNCHANGED <<index, workdir, tree, entries, current, log, listed, head, listres, cl>>

\* The traversal emits the next content line of the file it is in: line_cb runs.
LineVisit ==
    /\ dd.pc = "lines"
    /\ dd.lno <= Len(dd.deltas[dd.pos].lines)
    /\ LET delta == dd.deltas[dd.pos]
           r == line_cb(dd.lines, dd.target, delta, delta.lines[dd.lno])
       IN dd' = [dd EXCEPT !.lines = r.lines,
                           !.lno = @ + 1,
                           !.pc = IF r.ret THEN "lines" ELSE "end",
                           !.err = IF r.ret THEN "Ok" ELSE "User"]
    /\ UNCHANGED <<index, workdir, tree, entries, current, log, listed, head, listres, cl>>

\* The file's lines are exhausted: the traversal moves to the next changed file
\* or ends.
NextDelta ==
    /\ dd.pc = "lines"
    /\ dd.lno > Len(dd.deltas[dd.pos].lines)
    /\ dd' = [dd EXCEPT !.pos = @ + 1,
                        !.pc = IF dd.pos < Len(dd.deltas) THEN "file" ELSE "end"]
    /\ UNCHANGED <<index, workdir, tree, entries, current, log, listed, head, listres, cl>>

\* The backend fails in the middle of the traversal.
TraversalFails ==
    /\ dd.pc \in {"file", "lines"}
    /\ dd' = [dd EXCEPT !.pc = "end", !.err = "Git2"]
    /\ UNCHANGED <<index, workdir, tree, entries, current, log, listed, head, listres, cl>>

\* _diff_details returns.
DiffReturn ==
    /\ dd.pc = "end"
    /\ dd' = [dd EXCEPT !.pc = "done",
                        !.result = diff_result(dd.err, dd.meta, dd.lines, dd.target)]
    /\ UNCHANGED <<index, workdir, tree, entries, current, log, listed, head, listres, cl>>

(* ---------------------------------------------------------------------- *)
(* Specification                                                           *)
(* ---------------------------------------------------------------------- *)

\* Repo::open on a repository directory: an empty history; the working tree,
\* the index and the baseline are whatever the directory holds.
Init ==
    /\ workdir \in SUBSET StagePaths
    /\ tree \in {{}, {"a.txt"}}
    /\ index \in {i \in SUBSET StagePaths : tree \subseteq i /\ i \subseteq workdir \cup tree}
    /\ entries = <<>>
    /\ current = 0
    /\ log = <<>>
    /\ listed = <<>>
    /\ dd = Idle
    /\ head = (IF tree = {} THEN "UnbornBranch" ELSE "Born")
    /\ listres = NotListed
    /\ cl = NoRecord

StageStep == \E file \in File : Repo_stage_file(file)

UnstageStep == \E file \in File : Repo_unstage_file(file)

UndoStep == Repo_undo

RedoStep == Repo_redo

SetFileStep ==
    \E path \in StagePaths :
        /\ set_file(path)
        /\ log' = Record(ObserveDir("set_file", path, workdir'))
        /\ UNCHANGED dd

RemoveFileStep ==
    \E path \in StagePaths :
        /\ remove_file(path)
        /\ log' = Record(ObserveDir("remove_file", path, workdir'))
        /\ UNCHANGED dd

Next ==
    \/ StageStep
    \/ UnstageStep
    \/ UndoStep
    \/ RedoStep
    \/ SetFileStep
    \/ RemoveFileStep

Spec == Init /\ [][Next]_vars

\* The diff-detail runs: a repository directory with changed files, a caller
\* that lists them and asks for the detail of listed deltas while files come
\* and go between its calls.
InitDiff ==
    /\ workdir \in SUBSET DiffPaths
    /\ tree \in {{}, {"a.txt"}}
    /\ index \in {i \in SUBSET DiffPaths : tree \subseteq i /\ i \subseteq workdir \cup tree}
    /\ entries = <<>>
    /\ current = 0
    /\ log = <<>>
    /\ listed = <<>>
    /\ dd = Idle
    /\ head = (IF tree = {} THEN "UnbornBranch" ELSE "Born")
    /\ listres = NotListed
    /\ cl = NoRecord

DirSetStep == \E path \in DiffPaths : Quiet /\ set_file(path) /\ UNCHANGED <<log, dd>>

DirRemoveStep == \E path \in DiffPaths : Quiet /\ remove_file(path) /\ UNCHANGED <<log, dd>>

DiffDetailsStep == \E i \in 1..Len(PathOrder) : diff_details(i)

NextDiff ==
    \/ list_uncommitted
    \/ DiffDetailsStep
    \/ FileVisit
    \/ LineVisit
    \/ NextDelta
    \/ TraversalFails
    \/ DiffReturn
    \/ DirSetStep
    \/ DirRemoveStep

SpecDiff == InitDiff /\ [][NextDiff]_vars

\* The baseline runs: repositories with and without a first commit, with
\* ignored files, whose HEAD may become unresolvable between two calls.
InitHead ==
    /\ workdir \in SUBSET StagePaths
    /\ tree \in {{}, {"a.txt"}}
    /\ index \in {i \in SUBSET StagePaths : tree \subseteq i /\ i \subseteq workdir \cup tree}
    /\ entries = <<>>
    /\ current = 0
    /\ log = <<>>
    /\ listed = <<>>
    /\ dd = Idle
    /\ head \in (IF tree = {} THEN {"UnbornBranch", "Born"} ELSE {"Born"})
    /\ listres = NotListed
    /\ cl = NoRecord

\* HEAD stops resolving (a damaged reference): head() now fails with an error
\* other than UnbornBranch.
HeadBreaks ==
    /\ Quiet
    /\ head # "Corrupt"
    /\ head' = "Corrupt"
    /\ UNCHANGED <<index, workdir, tree, entries, current, log, listed, dd, listres, cl>>

HeadSetStep == \E path \in StagePaths : Quiet /\ set_file(path) /\ UNCHANGED <<log, dd>>

HeadRemoveStep == \E path \in StagePaths : Quiet /\ remove_file(path) /\ UNCHANGED <<log, dd>>

NextHead ==
    \/ list_uncommitted
    \/ DiffDetailsStep
    \/ FileVisit
    \/ LineVisit
    \/ NextDelta
    \/ TraversalFails
    \/ DiffReturn
    \/ HeadBreaks
    \/ HeadSetStep
    \/ HeadRemoveStep

SpecHead == InitHead /\ [][NextHead]_vars

\* The classifier runs: Meta::from_git2 on backend records of every status tag
\* and side count, next to listings of a repository directory.
InitMeta ==
    /\ workdir \in SUBSET StagePaths
    /\ tree \in {{}, {"a.txt"}}
    /\ index \in {i \in SUBSET StagePaths : tree \subseteq i /\ i \subseteq workdir \cup tree}
    /\ entries = <<>>
    /\ current = 0
    /\ log = <<>>
    /\ listed = <<>>
    /\ dd = Idle
    /\ head = (IF tree = {} THEN "UnbornBranch" ELSE "Born")
    /\ listres = NotListed
    /\ cl \in [from : [status : Delta, nfiles : 0..MaxSides,
                        old_path : {None, "a.txt"}, new_path : {None, "a.txt"},
                        lines : {<<>>}],
                out : {NoMeta}]

\* Meta::from_git2 is called on the record.
Classify ==
    /\ cl.from.status # None
    /\ cl.out = NoMeta
    /\ cl' = [cl EXCEPT !.out = Meta_from_git2(cl.from)]
    /\ UNCHANGED <<index, workdir, tree, entries, current, log, listed, dd, head, listres>>

NextMeta ==
    \/ Classify
    \/ list_uncommitted

SpecMeta == InitMeta /\ [][NextMeta]_vars

TypeOK ==
    /\ index \subseteq Paths
    /\ workdir \subseteq Paths
    /\ tree \subseteq Paths
    /\ current \in 0..Len(entries)
    /\ \A i \in 1..Len(entries) : entries[i] \in Change
    /\ Len(log) <= 2
    /\ head \in {"Born", "UnbornBranch", "Corrupt"}
    /\ head = "UnbornBranch" => tree = {}
    /\ listres.res \in {None, "Ok", "Git2"}
    /\ cl.from.nfiles \in 0..MaxSides

(* ---------------------------------------------------------------------- *)
(* Properties                                                              *)
(* ---------------------------------------------------------------------- *)

Called == log # <<>>

CalledTwice == Len(log) = 2

Newest == log[1]

Prior == log[2]

IsApply(rec) == rec.op \in {"stage_file", "unstage_file"}

HasPath(rec) == rec.file.rel_path # None

\* C1: a successful stage or unstage appends the command at the cursor, drops
\* every undone-but-redoable entry and advances the cursor, so right after it
\* the cursor is at the end of the sequence and redo() fails with RedoEmpty.
C1_ApplyDropsRedoTail ==
    /\ (Called /\ IsApply(Newest) /\ Newest.res = "Ok") =>
          /\ entries = Append(SubSeq(Newest.entries0, 1, Newest.current0),
                              [kind |-> Newest.kind, file |-> Newest.file])
          /\ current = Newest.current0 + 1
          /\ current = Len(entries)
          /\ ~can_redo
    /\ (CalledTwice /\ Newest.op = "redo" /\ IsApply(Prior) /\ Prior.res = "Ok") =>
          /\ Newest.res = "RedoEmpty"
          /\ Newest.ran = "none"

\* C1 witness: a command was applied successfully while undone entries were
\* waiting to be redone.
C1_Witness ==
    /\ Called /\ IsApply(Newest) /\ Newest.res = "Ok"
    /\ Newest.current0 < Len(Newest.entries0)
    /\ current = Len(entries)

\* C2: when the forward action of apply fails, the failure is what the caller
\* gets and the command is not recorded: sequence, cursor and redo tail (and
\* the index) are as before the call.
C2_FailedApplyNotRecorded ==
    (Called /\ IsApply(Newest) /\ Newest.res # "Ok") =>
        /\ Newest.res \in {"Git2", "MissingPath"}
        /\ Newest.res = Change_apply([kind |-> Newest.kind, file |-> Newest.file],
                                     Newest.index0, workdir).res
        /\ entries = Newest.entries0
        /\ current = Newest.current0
        /\ index = Newest.index0

\* C2 witness: the backend refused the forward action while a redo tail existed.
C2_Witness ==
    /\ Called /\ IsApply(Newest) /\ Newest.res = "Git2"
    /\ Newest.current0 < Len(Newest.entries0)
    /\ Newest.current0 >= 1

\* C3: undo() with the cursor at the start fails with UndoEmpty, runs no
\* backend action and leaves the sequence, the cursor and the index unchanged.
C3_UndoAtStart ==
    (Called /\ Newest.op = "undo" /\ Newest.current0 = 0) =>
        /\ Newest.res = "UndoEmpty"
        /\ Newest.ran = "none" /\ Newest.calls = <<>>
        /\ entries = Newest.entries0
        /\ current = Newest.current0
        /\ index = Newest.index0

\* C3 witness: undo called after everything applied had been undone.
C3_Witness ==
    /\ Called /\ Newest.op = "undo" /\ Newest.res = "UndoEmpty"
    /\ Newest.current0 = 0 /\ Len(Newest.entries0) > 0

\* C4: redo() with the cursor at the end fails with RedoEmpty, runs no backend
\* action and leaves the sequence, the cursor and the index unchanged.
C4_RedoAtEnd ==
    (Called /\ Newest.op = "redo" /\ Newest.current0 = Len(Newest.entries0)) =>
        /\ Newest.res = "RedoEmpty"
        /\ Newest.ran = "none" /\ Newest.calls = <<>>
        /\ entries = Newest.entries0
        /\ current = Newest.current0
        /\ index = Newest.index0

\* C4 witness: redo called with commands applied and none undone.
C4_Witness ==
    /\ Called /\ Newest.op = "redo" /\ Newest.res = "RedoEmpty"
    /\ Newest.current0 = Len(Newest.entries0) /\ Newest.current0 > 0

PathOf(rec) == rec.file.rel_path

\* C5: for every command and every state in which the apply succeeds, undo()
\* right after the apply restores the classification the file had before the
\* apply, and redo() right after that undo restores the one it had after it.
C5_UndoRedoRestore ==
    /\ (CalledTwice /\ Newest.op = "undo" /\ Newest.streak = 2 /\ HasPath(Newest)) =>
          ClassOf(Newest.after, PathOf(Newest)) = ClassOf(Newest.origin, PathOf(Newest))
    /\ (CalledTwice /\ Newest.op = "redo" /\ Newest.streak = 3 /\ HasPath(Newest)) =>
          ClassOf(Newest.after, PathOf(Newest)) = ClassOf(Prior.before, PathOf(Newest))

\* Two successive successful applies on the same file, one staging and one
\* unstaging it.
OppositeApplies ==
    /\ CalledTwice
    /\ IsApply(Newest) /\ IsApply(Prior) /\ Newest.op # Prior.op
    /\ HasPath(Newest) /\ Newest.file = Prior.file

\* C6 as claimed: for an untracked file, stage then unstage and also unstage
\* then stage return the file to Untracked.
C6_EitherOrderUntracked ==
    (/\ OppositeApplies
     /\ Newest.res = "Ok" /\ Prior.res = "Ok"
     /\ ClassOf(Prior.before, PathOf(Prior)) = "Untracked") =>
        ClassOf(Newest.after, PathOf(Newest)) = "Untracked"

\* C6 as amended: for an untracked file, stage then unstage succeeds and returns
\* the file to Untracked; unstage then stage succeeds and leaves it Added.
C6_StageThenUnstage ==
    (OppositeApplies /\ ClassOf(Prior.before, PathOf(Prior)) = "Untracked") =>
        /\ Prior.res = "Ok" /\ Newest.res = "Ok"
        /\ Prior.op = "stage_file" =>
              /\ ClassOf(Prior.after, PathOf(Prior)) = "Added"
              /\ ClassOf(Newest.after, PathOf(Newest)) = "Untracked"
        /\ Prior.op = "unstage_file" =>
              /\ ClassOf(Prior.after, PathOf(Prior)) = "Untracked"
              /\ ClassOf(Newest.after, PathOf(Newest)) = "Added"

\* C6 witness: an untracked file was staged and then unstaged.
C6_Witness ==
    /\ OppositeApplies
    /\ Prior.op = "stage_file" /\ Prior.res = "Ok" /\ Newest.res = "Ok"
    /\ ClassOf(Prior.before, PathOf(Prior)) = "Untracked"
    /\ ClassOf(Newest.before, PathOf(Newest)) = "Added"

\* C7: for an untracked, not ignored file: stage, then undo, then redo make
\* list-uncommitted-changes report it Untracked, Added, Untracked, Added, the
\* undo and the redo both succeeding.
C7_StageUndoRedo ==
    /\ (Called /\ Newest.op = "stage_file" /\ HasPath(Newest)
          /\ ClassOf(Newest.before, PathOf(Newest)) = "Untracked") =>
          /\ Newest.res = "Ok"
          /\ ClassOf(Newest.after, PathOf(Newest)) = "Added"
    /\ (CalledTwice /\ Newest.op = "undo" /\ Prior.op = "stage_file"
          /\ HasPath(Prior) /\ ClassOf(Prior.before, PathOf(Prior)) = "Untracked") =>
          /\ Newest.res = "Ok" /\ Newest.file = Prior.file
          /\ ClassOf(Newest.before, PathOf(Prior)) = "Added"
          /\ ClassOf(Newest.after, PathOf(Prior)) = "Untracked"
    /\ (CalledTwice /\ Newest.op = "redo" /\ Prior.op = "undo" /\ Prior.streak = 2
          /\ Prior.kind = "StageFile" /\ HasPath(Prior)
          /\ ClassOf(Prior.origin, PathOf(Prior)) = "Untracked") =>
          /\ Newest.res = "Ok" /\ Newest.file = Prior.file
          /\ ClassOf(Newest.before, PathOf(Prior)) = "Untracked"
          /\ ClassOf(Newest.after, PathOf(Prior)) = "Added"

\* C7 witness: the redo of the chain has run: the file was Untracked before the
\* stage, Added before the undo, Untracked after it and Added after the redo.
C7_Witness ==
    /\ CalledTwice
    /\ Newest.op = "redo" /\ Newest.streak = 3 /\ Newest.kind = "StageFile"
    /\ PathOf(Newest) \notin IgnoreRules
    /\ ClassOf(Newest.origin, PathOf(Newest)) = "Untracked"
    /\ ClassOf(Prior.before, PathOf(Newest)) = "Added"
    /\ ClassOf(Prior.after, PathOf(Newest)) = "Untracked"
    /\ ClassOf(Newest.after, PathOf(Newest)) = "Added"

\* C8: Stage on a path the ignore rules match succeeds without touching the
\* index: the path's classification is what it was, and a path that was
\* Untracked or Ignored is not promoted to Added.
C8_StageIgnoredIsNoOp ==
    (Called /\ Newest.ran = "stage" /\ HasPath(Newest)
       /\ PathOf(Newest) \in IgnoreRules) =>
        /\ Newest.res = "Ok"
        /\ index = Newest.index0
        /\ Newest.calls = <<"status_should_ignore">>
        /\ Newest.after = Newest.before
        /\ ClassOf(Newest.before, PathOf(Newest)) \in {"Untracked", "Ignored"} =>
              ClassOf(Newest.after, PathOf(Newest)) \in {"Untracked", "Ignored"}

\* C8 witness: Stage ran on an ignored file that exists and is not in the index.
C8_Witness ==
    /\ Called /\ Newest.op = "stage_file" /\ Newest.res = "Ok"
    /\ PathOf(Newest) \in IgnoreRules
    /\ PathOf(Newest) \in workdir /\ PathOf(Newest) \notin Newest.index0
    /\ ClassOf(Newest.after, PathOf(Newest)) = "Ignored"

\* C9: Unstage, run forward or as the inverse of Stage, removes the file's path
\* from the index without asking the ignore rules: once it has succeeded the
\* path is not in the index, ignored or not.
C9_UnstageRemoves ==
    (Called /\ Newest.ran = "unstage" /\ HasPath(Newest)) =>
        /\ "status_should_ignore" \notin {Newest.calls[i] : i \in 1..Len(Newest.calls)}
        /\ Newest.res = "Ok" =>
              /\ PathOf(Newest) \notin index
              /\ index = Newest.index0 \ {PathOf(Newest)}

\* C9 witness: the undo of a Stage removed an ignored path that was in the index.
C9_Witness ==
    /\ Called /\ Newest.op = "undo" /\ Newest.ran = "unstage" /\ Newest.res = "Ok"
    /\ PathOf(Newest) \in IgnoreRules
    /\ PathOf(Newest) \in Newest.index0
    /\ PathOf(Newest) \notin index

PathsOf(listing) == {listing[i].path : i \in 1..Len(listing)}

Visited == {dd.visited[i] : i \in 1..Len(dd.visited)}

\* The diff-detail call has returned and its traversal met no backend failure.
Returned == dd.pc = "done" /\ dd.target # None /\ dd.err \in {"Ok", "User"}

\* C10: get-diff-detail answers from the backend state at the time of the call:
\* when the traversal ends without having visited a changed path equal to the
\* target, the call fails with PathNotFound carrying the requested path, also
\* for a target taken from an earlier listing whose path has left the change set.
C10_PathNotFound ==
    Returned =>
        /\ Visited \subseteq PathsOf(dd.at_call)
        /\ dd.target \notin Visited =>
              dd.result = [err |-> "PathNotFound", path |-> dd.target]
        /\ dd.target \notin PathsOf(dd.at_call) =>
              dd.result = [err |-> "PathNotFound", path |-> dd.target]

\* C10 witness: the target came from the caller's listing, had left the change
\* set when the call was made, the traversal visited other changed paths to its
\* end and the call returned PathNotFound.
C10_Witness ==
    /\ Returned
    /\ dd.err = "Ok"
    /\ dd.target \in PathsOf(listed)
    /\ dd.target \notin PathsOf(dd.at_call)
    /\ Len(dd.visited) = 2
    /\ dd.result = [err |-> "PathNotFound", path |-> dd.target]


\* C11: a traversal that ends because the file-visit callback asked it to stop
\* is never returned as an error: the call returns the DiffDetails of the
\* matched target. Any other backend error during the traversal is returned as
\* the backend failure, and no DiffDetails with it, matched target or not.
C11_StopIsNotAnError ==
    (dd.pc = "done" /\ dd.target # None) =>
        /\ dd.err = "User" =>
              /\ dd.meta # NoMeta
              /\ dd.result = [err |-> "Ok", meta |-> dd.meta, lines |-> dd.lines]
        /\ dd.err = "Git2" => dd.result = [err |-> "Git2"]

\* A call returned its DiffDetails after the callback stopped the traversal.
C11_Witness ==
    /\ dd.pc = "done"
    /\ dd.err = "User"
    /\ dd.result.err = "Ok"
    /\ dd.result.meta.path = dd.target
    /\ dd.visited[Len(dd.visited)] # dd.target


\* C12: the lines of a returned DiffDetails are line records of the target path
\* only, in the order the traversal emitted them; no line of another path the
\* path filter matched is among them.
C12_OnlyTargetLines ==
    /\ \A i \in 1..Len(dd.lines) :
          /\ dd.lines[i].path = dd.target
          /\ \A j \in 1..Len(dd.lines) : i < j => dd.lines[i].no < dd.lines[j].no
    /\ (dd.pc = "done" /\ dd.result.err = "Ok") =>
          /\ dd.result.lines = dd.lines
          /\ \A i \in 1..Len(dd.result.lines) : dd.result.lines[i].path = dd.target

\* A call returned the target's lines after the traversal had emitted the lines
\* of another matched path.
C12_Witness ==
    /\ dd.pc = "done"
    /\ dd.result.err = "Ok"
    /\ Len(dd.result.lines) = LinesPerFile
    /\ \E i \in 1..Len(dd.visited) :
          /\ dd.visited[i] # dd.target
          /\ i < dd.pos
          /\ dd.deltas[i].lines # <<>>



Classified == cl.out # NoMeta

\* C14: the classifier returns a Delta only when the number of file sides of
\* the backend record fits its status tag: exactly one for Added, Deleted,
\* Ignored, Untracked and Unreadable, exactly two for Modified, Renamed, Copied,
\* Typechange and Conflicted. Any other number of sides, and the tag
\* Unmodified, abort the process, so no Delta a query returns is Unmodified.
C14_ClassifierSideCount ==
    /\ Classified =>
          /\ cl.out # Panic <=>
                \/ cl.from.status \in OneSided /\ cl.from.nfiles = 1
                \/ cl.from.status \in TwoSided /\ cl.from.nfiles = 2
          /\ cl.out # Panic =>
                /\ cl.out.status = cl.from.status
                /\ cl.out.status # "Unmodified"
    /\ \A i \in 1..Len(listed) : listed[i].status \in (OneSided \cup TwoSided)

\* The classifier aborted on a two-sided status tag with one side, next to a
\* listing that returned deltas.
C14_Witness ==
    /\ Classified
    /\ cl.from.status = "Modified"
    /\ cl.from.nfiles = 1
    /\ cl.out = Panic
    /\ listed # <<>>


\* C15: staging a file that is untracked and not ignored changes the
\* classification of that file only, from Untracked to Added: the listing
\* after the call has the same paths at the same positions as the listing
\* before it, and every other path keeps its classification.
C15_StageChangesOnlyItsFile ==
    (/\ Called
     /\ Newest.op = "stage_file"
     /\ HasPath(Newest)
     /\ ClassOf(Newest.before, PathOf(Newest)) = "Untracked") =>
        /\ Newest.res = "Ok"
        /\ ClassOf(Newest.after, PathOf(Newest)) = "Added"
        /\ Len(Newest.after) = Len(Newest.before)
        /\ \A i \in 1..Len(Newest.before) :
              /\ Newest.after[i].path = Newest.before[i].path
              /\ Newest.before[i].path # PathOf(Newest) =>
                    Newest.after[i] = Newest.before[i]

\* An untracked file was staged while another path was listed too.
C15_Witness ==
    /\ Called
    /\ Newest.op = "stage_file"
    /\ HasPath(Newest)
    /\ ClassOf(Newest.before, PathOf(Newest)) = "Untracked"
    /\ ClassOf(Newest.after, PathOf(Newest)) = "Added"
    /\ \E i \in 1..Len(Newest.before) :
          /\ Newest.before[i].path # PathOf(Newest)
          /\ Newest.before[i].status = "Ignored"


\* undo() or redo() ran a backend action and it failed.
FailedStep(rec) ==
    /\ rec.op \in {"undo", "redo"}
    /\ rec.ran # "none"
    /\ rec.res # "Ok"

\* C16: when the backend call made by undo() or redo() fails, the caller gets
\* that failure, and the cursor movement of the call stays: after a failed
\* undo the cursor is one step back, so the command is redoable, although its
\* inverse did not take effect on the index.
C16_FailedUndoKeepsCursorMove ==
    (Called /\ FailedStep(Newest)) =>
        /\ Newest.res = "Git2"
        /\ index = Newest.index0
        /\ entries = Newest.entries0
        /\ Newest.op = "undo" =>
              /\ current = Newest.current0 - 1
              /\ can_redo
              /\ entries[current + 1] = [kind |-> Newest.kind, file |-> Newest.file]

\* An undo whose inverse (staging a file that is gone from the working tree)
\* failed in the backend.
C16_Witness ==
    /\ Called
    /\ Newest.op = "undo"
    /\ Newest.kind = "UnstageFile"
    /\ Newest.ran = "stage"
    /\ Newest.res = "Git2"
    /\ current = Newest.current0 - 1


\* The target was visited before the i-th file visit of the call.
MatchedBefore(i) == \E j \in 1..(i - 1) : dd.visited[j] = dd.target

\* C17 as stated: the file-visit callback signals "continue" on every visit
\* before the target is found, and "stop" on the visit of the target.
C17_StopsOnMatch ==
    \A i \in 1..Len(dd.visited) :
        /\ (dd.visited[i] # dd.target /\ ~MatchedBefore(i)) => dd.signals[i]
        /\ dd.visited[i] = dd.target => ~dd.signals[i]

\* C17: the file-visit callback signals "continue" on every visit before the
\* target is found; on the visit whose path equals the target it captures the
\* classification and signals "continue" again, and it signals "stop" on the
\* first visit after that one.
C17_StopsAfterMatch ==
    /\ Len(dd.signals) = Len(dd.visited)
    /\ \A i \in 1..Len(dd.visited) :
          /\ (dd.visited[i] # dd.target /\ ~MatchedBefore(i)) => dd.signals[i]
          /\ dd.visited[i] = dd.target =>
                /\ dd.signals[i]
                /\ dd.meta = [status |-> dd.deltas[i].status, path |-> dd.target]
          /\ (dd.visited[i] # dd.target /\ MatchedBefore(i)) =>
                /\ ~dd.signals[i]
                /\ dd.visited[i - 1] = dd.target
                /\ i = Len(dd.visited)

\* The callback let the traversal continue on the visit of the target and
\* stopped it on the next visit.
C17_Witness ==
    \E i \in 1..Len(dd.visited) :
        /\ i > 1
        /\ dd.visited[i] = dd.target
        /\ dd.signals[i]
        /\ Len(dd.visited) = i + 1
        /\ ~dd.signals[i + 1]


\* The position in the traversal of the delta whose path is the target, 0 when
\* the traversal has not visited it.
MatchPos ==
    IF \E i \in 1..Len(dd.visited) : dd.visited[i] = dd.target
    THEN CHOOSE i \in 1..Len(dd.visited) : dd.visited[i] = dd.target
    ELSE 0

\* C18: when get-diff-detail matches the target, the returned lines are all
\* the line records the traversal has for that file: the stop takes effect
\* only at the first file visit after the matched file, when that file's
\* lines are exhausted, and no path visited after the match is classified.
C18_AllLinesOfTarget ==
    MatchPos > 0 =>
        /\ dd.meta = [status |-> dd.deltas[MatchPos].status, path |-> dd.target]
        /\ dd.err = "User" =>
              /\ Len(dd.visited) = MatchPos + 1
              /\ dd.lines = dd.deltas[MatchPos].lines
        /\ (dd.pc = "done" /\ dd.err \in {"Ok", "User"}) =>
              /\ dd.result.err = "Ok"
              /\ dd.result.meta = dd.meta
              /\ dd.result.lines = dd.deltas[MatchPos].lines
              /\ dd.result.lines = DeltaLines(dd.meta.status, dd.target)

\* A call returned every line of the target after the callback stopped the
\* traversal on the file after it.
C18_Witness ==
    /\ dd.pc = "done"
    /\ dd.err = "User"
    /\ MatchPos > 0
    /\ Len(dd.visited) = MatchPos + 1
    /\ Len(dd.result.lines) = LinesPerFile


\* The index a backend action leaves when run on the index before the call.
IndexAfter(ran, rec) ==
    IF ran = "stage" THEN stage_file(rec.index0, workdir, rec.file).index
    ELSE unstage_file(rec.index0, rec.file).index

\* What undo() and redo() leave behind, call by call.
UndoRedoFrame ==
    (Called /\ Newest.op \in {"undo", "redo"}) =>
        /\ entries = Newest.entries0
        /\ (Newest.op = "undo" /\ Newest.res = "Ok") =>
              /\ current = Newest.current0 - 1
              /\ [kind |-> Newest.kind, file |-> Newest.file] =
                    Newest.entries0[Newest.current0]
              /\ Newest.ran = (IF Newest.kind = "StageFile" THEN "unstage" ELSE "stage")
              /\ index = IndexAfter(Newest.ran, Newest)
        /\ (Newest.op = "redo" /\ Newest.res = "Ok") =>
              /\ current = Newest.current0 + 1
              /\ [kind |-> Newest.kind, file |-> Newest.file] =
                    Newest.entries0[Newest.current0 + 1]
              /\ Newest.ran = (IF Newest.kind = "StageFile" THEN "stage" ELSE "unstage")
              /\ index = IndexAfter(Newest.ran, Newest)

\* A successful redo() right after a successful undo() puts the history and
\* the cursor back to where they were before the undo.
RedoAfterUndo ==
    (/\ Called
     /\ Newest.op = "undo"
     /\ Newest.res = "Ok"
     /\ log'[1].op = "redo"
     /\ log'[1].res = "Ok") =>
        /\ entries' = Newest.entries0
        /\ current' = Newest.current0
        /\ [kind |-> log'[1].kind, file |-> log'[1].file] =
              [kind |-> Newest.kind, file |-> Newest.file]

\* C19: undo() and redo() never add, remove, reorder or alter the recorded
\* commands. A successful undo moves the cursor back by exactly one and runs
\* the inverse action of exactly the command it stepped over; a successful
\* redo moves it forward by exactly one and runs the forward action of exactly
\* the next command. An undo followed at once by a redo, both successful,
\* leaves the history and the cursor as they were before the undo.
C19_UndoRedoKeepHistory == [](UndoRedoFrame) /\ [][RedoAfterUndo]_vars

\* A redo right after an undo, both successful, with a second command recorded
\* besides the one stepped over.
C19_Witness ==
    /\ CalledTwice
    /\ Prior.op = "undo"
    /\ Prior.res = "Ok"
    /\ Newest.op = "redo"
    /\ Newest.res = "Ok"
    /\ Len(entries) = MaxHist
    /\ current = Newest.current0 + 1


\* C20: stage and unstage of a FileRef without a relative path fail with
\* MissingPath before any backend call: the index is unchanged, the ignore
\* rules are not asked, and no command is recorded.
C20_MissingPathBeforeBackend ==
    (Called /\ IsApply(Newest) /\ ~HasPath(Newest)) =>
        /\ Newest.res = "MissingPath"
        /\ Newest.calls = <<>>
        /\ index = Newest.index0
        /\ entries = Newest.entries0
        /\ current = Newest.current0
        /\ Newest.after = Newest.before

\* An unstage of a FileRef without a path was refused while commands were
\* recorded and one of them was redoable.
C20_Witness ==
    /\ Called
    /\ Newest.op = "unstage_file"
    /\ ~HasPath(Newest)
    /\ Newest.res = "MissingPath"
    /\ index # {}
    /\ current < Len(entries)


\* C21: the cursor always lies between 0 and the length of the recorded
\* sequence; can_undo() is true exactly when the cursor is above 0 and undo()
\* returns UndoEmpty exactly when can_undo() was false; can_redo() is true
\* exactly when the cursor is below the length and redo() returns RedoEmpty
\* exactly when can_redo() was false.
C21_CursorWithinHistory ==
    /\ current \in 0..Len(entries)
    /\ can_undo <=> current > 0
    /\ can_redo <=> current < Len(entries)
    /\ (Called /\ Newest.op = "undo") =>
          (Newest.res = "UndoEmpty" <=> Newest.current0 = 0)
    /\ (Called /\ Newest.op = "redo") =>
          (Newest.res = "RedoEmpty" <=> Newest.current0 = Len(Newest.entries0))

\* An undo from the end of a history of two commands left the cursor strictly
\* inside it: both an undo and a redo are possible.
C21_Witness ==
    /\ Called
    /\ Newest.op = "undo"
    /\ Newest.res = "Ok"
    /\ Newest.current0 = Len(entries)
    /\ Len(entries) = MaxHist
    /\ can_undo
    /\ can_redo


\* The call was a Stage, or the undo of a Stage, of a path the ignore rules
\* match.
OnIgnored(rec) ==
    /\ rec.kind = "StageFile"
    /\ HasPath(rec)
    /\ PathOf(rec) \in IgnoreRules

\* C22: a Stage that did nothing because the ignore rules match its path is
\* still recorded as one undoable command, and the undo() after it runs
\* Unstage on the path, which removes it from the index if it was there: stage
\* then undo of an ignored path can leave the index other than it was.
C22_NoOpStageIsRecorded ==
    /\ (Called /\ Newest.op = "stage_file" /\ OnIgnored(Newest)) =>
          /\ Newest.res = "Ok"
          /\ index = Newest.index0
          /\ entries = Append(SubSeq(Newest.entries0, 1, Newest.current0),
                              [kind |-> "StageFile", file |-> Newest.file])
          /\ current = Newest.current0 + 1
          /\ can_undo
    /\ (Called /\ Newest.op = "undo" /\ Newest.streak = 2 /\ OnIgnored(Newest)) =>
          /\ Newest.ran = "unstage"
          /\ Newest.calls = <<"remove_path">>
          /\ Newest.res = "Ok"
          /\ index = Newest.index0 \ {PathOf(Newest)}
          /\ Prior.op = "stage_file"
          /\ Prior.after = Prior.before

\* Stage of an ignored path that was in the index, then undo: the path has left
\* the index, which is no longer what it was before the Stage.
C22_Witness ==
    /\ CalledTwice
    /\ Prior.op = "stage_file"
    /\ Prior.res = "Ok"
    /\ Prior.after = Prior.before
    /\ Newest.op = "undo"
    /\ Newest.streak = 2
    /\ OnIgnored(Newest)
    /\ PathOf(Newest) \in Newest.index0
    /\ index # Newest.index0
    /\ Newest.after # Newest.origin

====
